---- MODULE Spec2Model ----
(***************************************************************************)
(* Model of selectivesearch/selectivesearch.py: region extraction from a   *)
(* label mask, border expansion, the neighbour graph, the similarity set   *)
(* and the greedy hierarchical merge loop of selective_search, followed by *)
(* the assembly of the proposal list.                                      *)
(*                                                                         *)
(* Numbers.  The program computes histograms and similarities in floating  *)
(* point.  The model keeps them exact: a histogram is kept as its vector   *)
(* of numerators over the denominator "size" (len(img) of the leaf, and    *)
(* new_size after a merge, where (h1*s1 + h2*s2)/new_size has numerators   *)
(* n1 + n2), stored sparsely (absent index = 0); a similarity is a         *)
(* fraction <<numerator, denominator>> with a positive denominator.        *)
(***************************************************************************)
EXTENDS Integers, Sequences, FiniteSets

(***************************************************************************)
(* Bounds of the model.                                                    *)
(***************************************************************************)
MaxLabels == 4
MaxBorder == 1
MaxSquare == 2

COLOUR_BINS == 25
TEXTURE_BINS == 10

Channels == 0 .. 2

\* max_region_size as passed by the caller: tight, medium, and the default
MaxRegionSizes == {1, 4, 3000}

\* img.shape[:2] = (height, width) of the images segmented freely
ImageShapes == { << 3, 3 >> }

\* img.shape[2] of the images that do not have three channels
BadChannels == { 1, 4 }

\* the pixels (x, y) of an image of shape sh
Pixels(sh) == (0 .. sh[2] - 1) \X (0 .. sh[1] - 1)

\* position of pixel (x, y) in the raster scan of an image of width w
PixIdx(p, w) == p[2] * w + p[1]

(***************************************************************************)
(* Generic helpers.                                                        *)
(***************************************************************************)
Min2(a, b) == IF a < b THEN a ELSE b
Max2(a, b) == IF a > b THEN a ELSE b

SetMin(s) == CHOOSE m \in s : \A e \in s : m <= e
SetMax(s) == CHOOSE m \in s : \A e \in s : m >= e

RECURSIVE SumFun(_, _)
SumFun(f, dom) ==
    IF dom = {} THEN 0
    ELSE LET e == CHOOSE x \in dom : TRUE
         IN  f[e] + SumFun(f, dom \ {e})

SeqRange(s) == { s[n] : n \in 1 .. Len(s) }

\* the elements of a set of integers, in increasing order
SortedSeq(s) ==
    [n \in 1 .. Cardinality(s) |->
        CHOOSE e \in s : Cardinality({f \in s : f < e}) = n - 1]

(***************************************************************************)
(* Label masks produced by the segmentation: every pixel carries one       *)
(* label, labels are numbered from 0 without gaps, and every segment is a  *)
(* connected set of pixels.  Masks are enumerated up to renaming of the    *)
(* labels (label l first appears before label l+1 in the raster scan).     *)
(***************************************************************************)
RECURSIVE MaskSeqs(_)
MaskSeqs(n) ==
    IF n = 0 THEN { <<>> }
    ELSE UNION { { Append(s, l) :
                     l \in 0 .. (IF s = <<>> THEN 0
                                 ELSE Min2(MaxLabels - 1, 1 + SetMax(SeqRange(s)))) } :
                 s \in MaskSeqs(n - 1) }

Adjacent(p, q) ==
    \/ p[1] = q[1] /\ (p[2] = q[2] + 1 \/ q[2] = p[2] + 1)
    \/ p[2] = q[2] /\ (p[1] = q[1] + 1 \/ q[1] = p[1] + 1)

RECURSIVE Grow(_, _)
Grow(seen, px) ==
    LET more == seen \cup { q \in px : \E p \in seen : Adjacent(p, q) }
    IN  IF more = seen THEN seen ELSE Grow(more, px)

Connected(px) == Grow({ CHOOSE p \in px : TRUE }, px) = px

Segmented(mask) ==
    \A l \in { mask[p] : p \in DOMAIN mask } :
        Connected({ p \in DOMAIN mask : mask[p] = l })

Masks(sh) ==
    { m \in { [p \in Pixels(sh) |-> s[PixIdx(p, sh[2]) + 1]] :
                s \in MaskSeqs(sh[1] * sh[2]) } : Segmented(m) }

\* two squares of side k side by side: label 0 on the left, 1 on the right
SquarePair(k) ==
    [p \in Pixels(<< k, 2 * k >>) |-> IF p[1] < k THEN 0 ELSE 1]

(***************************************************************************)
(* The per-pixel colour (hsv) and texture-gradient arrays supplied by the  *)
(* colour conversion and the LBP extractor: three channel values a pixel.  *)
(* rgb2hsv yields values in [0, 1], of which the model takes the two ends;  *)
(* local_binary_pattern yields the codes 0, 1, 2, ...                      *)
(***************************************************************************)
UniformScene(px) ==
    [hsv |-> [p \in px |-> <<0, 0, 0>>],
     tex |-> [p \in px |-> <<0, 0, 0>>]]

VariedScene(px) ==
    [hsv |-> [p \in px |-> <<0, p[1] % 2, p[2] % 2>>],
     tex |-> [p \in px |-> <<(p[1] + p[2]) % 2, p[1] % 3, 1>>]]

Scenes(px) == { UniformScene(px), VariedScene(px) }

(***************************************************************************)
(* Histograms: numpy.histogram(c, BINS, (lo, hi)) of each channel, joined. *)
(***************************************************************************)
\* bin of sample v, or -1 when v lies outside [lo, hi] and is not counted
HistBin(v, bins, lo, hi) ==
    IF v < lo \/ v > hi THEN -1
    ELSE IF v = hi THEN bins - 1
    ELSE ((v - lo) * bins) \div (hi - lo)

\* numerators of the joined histogram of the samples val[p], p \in px:
\* index c * bins + b is bin b of channel c; indices with count 0 are absent
HistCounts(px, val, bins, lo, hi) ==
    LET at(p, c) == HistBin(val[p][c + 1], bins, lo, hi)
        hits == { <<p, c>> \in px \X Channels : at(p, c) >= 0 }
        idx(h) == h[2] * bins + at(h[1], h[2])
    IN  [i \in { idx(h) : h \in hits } |->
            Cardinality({ h \in hits : idx(h) = i })]

\* hist / len(img), kept as the numerators over the denominator len(img)
calc_colour_hist(px, hsv) == HistCounts(px, hsv, COLOUR_BINS, 0, 255)

calc_texture_hist(px, tex) == HistCounts(px, tex, TEXTURE_BINS, 0, 1)

\* h1 * s1 + h2 * s2 over new_size: the numerators add, index by index
HistAdd(h1, h2) ==
    [i \in DOMAIN h1 \cup DOMAIN h2 |->
        (IF i \in DOMAIN h1 THEN h1[i] ELSE 0)
      + (IF i \in DOMAIN h2 THEN h2[i] ELSE 0)]

(***************************************************************************)
(* _extract_regions: one region per label, in order of first appearance in *)
(* the raster scan, with the bounding box of the label's pixel positions.  *)
(***************************************************************************)
LabelsOf(mask) == { mask[p] : p \in DOMAIN mask }

\* the labels in the order in which the scan of an image of width w inserts
\* them into R
LabelOrder(mask, w) ==
    LET ls == LabelsOf(mask)
        first == [l \in ls |->
                    SetMin({ PixIdx(p, w) : p \in { q \in DOMAIN mask : mask[q] = l } })]
    IN  [n \in 1 .. Cardinality(ls) |->
            CHOOSE l \in ls : Cardinality({ m \in ls : first[m] < first[l] }) = n - 1]

extract_regions(mask, w, hsv, tex) ==
    LET order == LabelOrder(mask, w)
        reg(l) ==
            LET px == { p \in DOMAIN mask : mask[p] = l }
                x0 == SetMin({ p[1] : p \in px })
                y0 == SetMin({ p[2] : p \in px })
                x1 == SetMax({ p[1] : p \in px })
                y1 == SetMax({ p[2] : p \in px })
            IN  [ min_x |-> x0, min_y |-> y0, max_x |-> x1, max_y |-> y1,
                  labels |-> << l >>,
                  bbox_size |-> (x1 - x0) * (y1 - y0),
                  size |-> Cardinality(px),
                  hist_c |-> calc_colour_hist(px, hsv),
                  hist_t |-> calc_texture_hist(px, tex) ]
    IN  [n \in 1 .. Len(order) |-> reg(order[n])]

(***************************************************************************)
(* _expand_regions: the regions re-keyed 0 .. N-1 with the bbox grown by   *)
(* border and clipped to the image; bbox_size is computed from r[1], the   *)
(* region before expansion.                                                *)
(***************************************************************************)
\* mutant: the lower corner is moved out by the border without the clamp at 0
expand_region_unclamped(r, b, x_lim, y_lim) ==
    [ min_x |-> r.min_x - b,
      min_y |-> r.min_y - b,
      max_x |-> Min2(x_lim, r.max_x + b),
      max_y |-> Min2(y_lim, r.max_y + b),
      og_min_x |-> r.min_x, og_min_y |-> r.min_y,
      og_max_x |-> r.max_x, og_max_y |-> r.max_y,
      size |-> r.size,
      hist_c |-> r.hist_c,
      hist_t |-> r.hist_t,
      labels |-> r.labels,
      bbox_size |-> (r.max_x - r.min_x) * (r.max_y - r.min_y) ]

expand_region(r, b, x_lim, y_lim) ==
    [ min_x |-> Max2(0, r.min_x - b),
      min_y |-> Max2(0, r.min_y - b),
      max_x |-> Min2(x_lim, r.max_x + b),
      max_y |-> Min2(y_lim, r.max_y + b),
      og_min_x |-> r.min_x, og_min_y |-> r.min_y,
      og_max_x |-> r.max_x, og_max_y |-> r.max_y,
      size |-> r.size,
      hist_c |-> r.hist_c,
      hist_t |-> r.hist_t,
      labels |-> r.labels,
      bbox_size |-> (r.max_x - r.min_x) * (r.max_y - r.min_y) ]

expand_regions(regs, b, x_lim, y_lim) ==
    [i \in 0 .. Len(regs) - 1 |-> expand_region(regs[i + 1], b, x_lim, y_lim)]

(***************************************************************************)
(* _extract_neighbours.                                                    *)
(***************************************************************************)
intersect(a, b) ==
    \/ (a.min_x < b.min_x /\ b.min_x < a.max_x
            /\ a.min_y < b.min_y /\ b.min_y < a.max_y)
    \/ (a.min_x < b.max_x /\ b.max_x < a.max_x
            /\ a.min_y < b.max_y /\ b.max_y < a.max_y)
    \/ (a.min_x < b.min_x /\ b.min_x < a.max_x
            /\ a.min_y < b.max_y /\ b.max_y < a.max_y)
    \/ (a.min_x < b.max_x /\ b.max_x < a.max_x
            /\ a.min_y < b.min_y /\ b.min_y < a.max_y)

\* mutant: b runs over all the regions other than a, not only those after a
extract_neighbours_both_ways(regs) ==
    LET n == Cardinality(DOMAIN regs)
        hit == { pr \in (0 .. n - 1) \X (0 .. n - 1) :
                    pr[1] # pr[2] /\ intersect(regs[pr[1]], regs[pr[2]]) }
        ranks == SortedSeq({ pr[1] * n + pr[2] : pr \in hit })
    IN  [m \in 1 .. Len(ranks) |-> << ranks[m] \div n, ranks[m] % n >>]

\* the pairs (a, b) appended by the double loop, in the order of appending:
\* a runs over R[:-1], b over the regions after a
extract_neighbours(regs) ==
    LET n == Cardinality(DOMAIN regs)
        hit == { pr \in (0 .. n - 1) \X (0 .. n - 1) :
                    pr[1] < pr[2] /\ intersect(regs[pr[1]], regs[pr[2]]) }
        ranks == SortedSeq({ pr[1] * n + pr[2] : pr \in hit })
    IN  [m \in 1 .. Len(ranks) |-> << ranks[m] \div n, ranks[m] % n >>]

(***************************************************************************)
(* Similarity.  A score is an exact fraction <<n, d>>, d > 0, in lowest    *)
(* terms.                                                                  *)
(***************************************************************************)
RECURSIVE GCD(_, _)
GCD(a, b) == IF b = 0 THEN a ELSE GCD(b, a % b)

Abs(a) == IF a < 0 THEN -a ELSE a

Rat(n, d) == LET g == GCD(Abs(n), d) IN << n \div g, d \div g >>

RatAdd(a, b) ==
    LET l == (a[2] * b[2]) \div GCD(a[2], b[2])
    IN  Rat(a[1] * (l \div a[2]) + b[1] * (l \div b[2]), l)

RatLeq(a, b) == a[1] * b[2] <= b[1] * a[2]

\* sum(min(a, b) for a, b in zip(h1, h2)) for h1 = n1 / s1 and h2 = n2 / s2
HistIntersection(n1, s1, n2, s2) ==
    LET both == DOMAIN n1 \cap DOMAIN n2
        m == [i \in both |-> Min2(n1[i] * s2, n2[i] * s1)]
    IN  Rat(SumFun(m, both), s1 * s2)

sim_colour(r1, r2) == HistIntersection(r1.hist_c, r1.size, r2.hist_c, r2.size)

sim_texture(r1, r2) == HistIntersection(r1.hist_t, r1.size, r2.hist_t, r2.size)

sim_size(r1, r2, imsize) == Rat(imsize - (r1.size + r2.size), imsize)

sim_fill(r1, r2, imsize) ==
    LET bbsize == (Max2(r1.max_x, r2.max_x) - Min2(r1.min_x, r2.min_x))
                * (Max2(r1.max_y, r2.max_y) - Min2(r1.min_y, r2.min_y))
    IN  Rat(imsize - (bbsize - r1.size - r2.size), imsize)

calc_sim(r1, r2, imsize) ==
    RatAdd(RatAdd(RatAdd(sim_colour(r1, r2), sim_texture(r1, r2)),
                  sim_size(r1, r2, imsize)),
           sim_fill(r1, r2, imsize))

(***************************************************************************)
(* _merge_regions                                                          *)
(***************************************************************************)
\* mutant: the labels of r2 are lost
merged_labels_first(r1, r2) == r1.labels

\* line 247
merged_labels(r1, r2) == r1.labels \o r2.labels

\* mutant: the size of the larger parent
new_size_larger(r1, r2) == Max2(r1.size, r2.size)

\* line 232
new_size(r1, r2) == r1.size + r2.size

merge_regions(r1, r2) ==
    [ min_x |-> Min2(r1.min_x, r2.min_x),
      min_y |-> Min2(r1.min_y, r2.min_y),
      max_x |-> Max2(r1.max_x, r2.max_x),
      max_y |-> Max2(r1.max_y, r2.max_y),
      og_min_x |-> Min2(r1.og_min_x, r2.og_min_x),
      og_min_y |-> Min2(r1.og_min_y, r2.og_min_y),
      og_max_x |-> Max2(r1.og_max_x, r2.og_max_x),
      og_max_y |-> Max2(r1.og_max_y, r2.og_max_y),
      size |-> new_size(r1, r2),
      hist_c |-> HistAdd(r1.hist_c, r2.hist_c),
      hist_t |-> HistAdd(r1.hist_t, r2.hist_t),
      labels |-> merged_labels(r1, r2),
      bbox_size |-> (Max2(r1.max_x, r2.max_x) - Min2(r1.min_x, r2.min_x))
                  * (Max2(r1.max_y, r2.max_y) - Min2(r1.min_y, r2.min_y)) ]

(***************************************************************************)
(* The similarity set S: a dict, kept as its items in insertion order.     *)
(***************************************************************************)
Keys(s) == { s[n].k : n \in 1 .. Len(s) }

\* S[k] = v: a new key is appended, an existing key keeps its place
DictSet(s, k, v) ==
    IF k \in Keys(s)
    THEN [n \in 1 .. Len(s) |-> IF s[n].k = k THEN [k |-> k, v |-> v] ELSE s[n]]
    ELSE Append(s, [k |-> k, v |-> v])

\* the keys of s that hold one of the ids in ids, in the order of s
KeysTouching(s, ids) ==
    LET touch(e) == e.k[1] \in ids \/ e.k[2] \in ids
        hit == SelectSeq(s, touch)
    IN  [n \in 1 .. Len(hit) |-> hit[n].k]

\* mutant: only the keys whose first end is one of the ids are deleted
DictDelTouching_first_end(s, ids) ==
    LET keep(e) == e.k[1] \notin ids
    IN  SelectSeq(s, keep)

\* s after "del S[k]" for every key that holds one of the ids in ids
DictDelTouching(s, ids) ==
    LET keep(e) == ~(e.k[1] \in ids \/ e.k[2] \in ids)
    IN  SelectSeq(s, keep)

\* mutant: the head of the ascending sort is taken instead of its tail
Lowest(s) ==
    CHOOSE n \in 1 .. Len(s) :
        /\ \A m \in 1 .. Len(s) : RatLeq(s[n].v, s[m].v)
        /\ \A m \in 1 .. n - 1 : ~RatLeq(s[m].v, s[n].v)

\* sorted(S.items(), key=lambda i: i[1])[-1]: the sort is stable, so of the
\* items with the highest score the last one in the order of S is taken
Highest(s) ==
    CHOOSE n \in 1 .. Len(s) :
        /\ \A m \in 1 .. Len(s) : RatLeq(s[m].v, s[n].v)
        /\ \A m \in n + 1 .. Len(s) : ~RatLeq(s[n].v, s[m].v)

(***************************************************************************)
(* State of one run of selective_search.                                   *)
(***************************************************************************)
VARIABLES
    im_shape,             \* im_orig.shape: (height, width, channels)
    im_mask,              \* the label channel written by _generate_segments
    hsv,                  \* the colour array read by _extract_regions
    tex_grad,             \* the texture array read by _extract_regions
    border,               \* parameter border
    region_pop,           \* parameter region_pop
    max_region_size,      \* parameter max_region_size
    pc,                   \* position in selective_search
    R,                    \* the region table, id -> region
    S,                    \* the similarity set, items in insertion order
    first_region_to_pop,  \* ids flagged by the region_pop pass
    regions,              \* the proposal list returned
    merges                \* history of the loop: per iteration the merged
                          \* pair i, j, the new id t and the set ns of other
                          \* ends of the similarities deleted

vars == << im_shape, im_mask, hsv, tex_grad, border, region_pop,
           max_region_size, pc, R, S, first_region_to_pop, regions, merges >>

params == << im_shape, im_mask, hsv, tex_grad, border, region_pop,
             max_region_size >>

imsize == im_shape[1] * im_shape[2]

\* the images of the runs, with the arrays the segmentation, the colour
\* conversion and the LBP extractor produce for them: every segmentation of
\* the free shapes, and the pairs of equal squares, with three channels or not
Inputs ==
    UNION { { [shape |-> << sh[1], sh[2], 3 >>, mask |-> m,
               scene |-> VariedScene(Pixels(sh))] : m \in Masks(sh) } :
            sh \in ImageShapes }
    \cup
    UNION { { [shape |-> << k, 2 * k, c >>, mask |-> SquarePair(k), scene |-> sc] :
                c \in {3} \cup BadChannels, sc \in Scenes(Pixels(<< k, 2 * k >>)) } :
            k \in 1 .. MaxSquare }

Init ==
    /\ \E in \in Inputs :
          /\ im_shape = in.shape
          /\ im_mask = in.mask
          /\ hsv = in.scene.hsv
          /\ tex_grad = in.scene.tex
    /\ border \in 0 .. MaxBorder
    /\ region_pop \in BOOLEAN
    /\ max_region_size \in MaxRegionSizes
    /\ pc = "start"
    /\ R = << >>
    /\ S = << >>
    /\ first_region_to_pop = << >>
    /\ regions = << >>
    /\ merges = << >>

\* the initial similarities: S[(ai, bi)] = _calc_sim(ar, br, imsize)
initial_similarities(regs, neighbours, ims) ==
    [n \in 1 .. Len(neighbours) |->
        [k |-> neighbours[n],
         v |-> calc_sim(regs[neighbours[n][1]], regs[neighbours[n][2]], ims)]]

\* mutant: an image with an extra (alpha) channel is let through
channels_ok_at_least(sh) == sh[3] >= 3

\* line 304: assert im_orig.shape[2] == 3
channels_ok(sh) == sh[3] = 3

\* line 304 failing: AssertionError("3ch image is expected") leaves the function
Reject ==
    /\ pc = "start"
    /\ ~channels_ok(im_shape)
    /\ pc' = "failed"
    /\ UNCHANGED << params, R, S, first_region_to_pop, regions, merges >>

\* lines 304-326: region table, neighbour graph and initial similarity set
Setup ==
    /\ pc = "start"
    /\ channels_ok(im_shape)
    /\ LET regs == expand_regions(
                       extract_regions(im_mask, im_shape[2], hsv, tex_grad),
                       border, im_shape[2], im_shape[1])
       IN  /\ R' = regs
           /\ S' = initial_similarities(regs, extract_neighbours(regs), imsize)
    /\ pc' = "pop"
    /\ UNCHANGED << params, first_region_to_pop, regions, merges >>

\* mutant: the pass starts at the second key of R
regions_to_pop_skip_first(regs, pop, cap) ==
    IF pop
    THEN SortedSeq({ t \in DOMAIN regs \ {0} : regs[t].bbox_size > cap })
    ELSE << >>

\* the ids appended to first_region_to_pop, in the order of R.keys()
regions_to_pop(regs, pop, cap) ==
    IF pop
    THEN SortedSeq({ t \in DOMAIN regs : regs[t].bbox_size > cap })
    ELSE << >>

\* mutant: "t == k[1]" for "t in k"
prune_similarities_second_end(s, popped) ==
    LET keep(e) == e.k[2] \notin SeqRange(popped)
    IN  SelectSeq(s, keep)

\* lines 337-343: every key that holds a flagged id is deleted from S
prune_similarities(s, popped) == DictDelTouching(s, SeqRange(popped))

\* lines 332-343: the region_pop pass
Pop ==
    /\ pc = "pop"
    /\ first_region_to_pop' = regions_to_pop(R, region_pop, max_region_size)
    /\ S' = prune_similarities(S, first_region_to_pop')
    /\ pc' = "loop"
    /\ UNCHANGED << params, R, regions, merges >>

\* mutant: the size cap is not applied
over_cap_never(rt, cap) == FALSE

\* line 366: the merged region gets no similarities
over_cap(rt, cap) == rt.bbox_size > cap

\* mutant: the other end of a deleted key is looked for opposite i only
RECURSIVE insert_similarities_first_only(_, _, _, _, _, _, _)
insert_similarities_first_only(s, ks, i, j, t, regs, ims) ==
    IF ks = << >> THEN s
    ELSE LET k == Head(ks)
             n == IF k[1] = i THEN k[2] ELSE k[1]
         IN  insert_similarities_first_only(
                 DictSet(s, << t, n >>, calc_sim(regs[t], regs[n], ims)),
                 Tail(ks), i, j, t, regs, ims)

\* lines 369-371: S[(t, n)] for the other end n of every deleted key
RECURSIVE insert_similarities(_, _, _, _, _, _, _)
insert_similarities(s, ks, i, j, t, regs, ims) ==
    IF ks = << >> THEN s
    ELSE LET k == Head(ks)
             n == IF k[1] \in {i, j} THEN k[2] ELSE k[1]
         IN  insert_similarities(
                 DictSet(s, << t, n >>, calc_sim(regs[t], regs[n], ims)),
                 Tail(ks), i, j, t, regs, ims)

\* mutant: the merged pair itself is not left out of the replacement
update_similarities_keep_pair(s, i, j, t, regs, cap, ims) ==
    IF over_cap(regs[t], cap) THEN DictDelTouching(s, {i, j})
    ELSE insert_similarities(DictDelTouching(s, {i, j}),
                             KeysTouching(s, {i, j}), i, j, t, regs, ims)

\* lines 355-371: S after the iteration that merged i and j into t
update_similarities(s, i, j, t, regs, cap, ims) ==
    LET key_to_delete == KeysTouching(s, {i, j})
        rest == DictDelTouching(s, {i, j})
        notij(k) == k # << i, j >>
    IN  IF over_cap(regs[t], cap) THEN rest
        ELSE insert_similarities(rest, SelectSeq(key_to_delete, notij),
                                 i, j, t, regs, ims)

\* mutant: the increment of the highest key is forgotten
new_id_highest(regs) == SetMax(DOMAIN regs)

\* line 352: t = max(R.keys()) + 1.0
new_id(regs) == SetMax(DOMAIN regs) + 1

\* lines 346-371: one iteration of the hierarchical search
Merge ==
    /\ pc = "loop"
    /\ S # << >>
    /\ LET k == S[Highest(S)].k
           i == k[1]
           j == k[2]
           t == new_id(R)
           regs == [x \in DOMAIN R \cup {t} |->
                       IF x = t THEN merge_regions(R[i], R[j]) ELSE R[x]]
       IN  /\ R' = regs
           /\ S' = update_similarities(S, i, j, t, regs, max_region_size, imsize)
           /\ merges' = Append(merges,
                  [i |-> i, j |-> j, t |-> t,
                   ns |-> (UNION { {e[1], e[2]} :
                                    e \in SeqRange(KeysTouching(S, {i, j})) })
                          \ {i, j}])
    /\ UNCHANGED << params, pc, first_region_to_pop, regions >>

\* mutant: regions consumed by a merge are left out as well
emitted_keys_survivors(regs, popped) ==
    SortedSeq({ k \in DOMAIN regs :
                  /\ k \notin SeqRange(popped)
                  /\ \A n \in 1 .. Len(merges) : k \notin { merges[n].i, merges[n].j } })

\* the keys of R whose region is appended to the proposal list
emitted_keys(regs, popped) ==
    SortedSeq({ k \in DOMAIN regs : k \notin SeqRange(popped) })

proposal(r) ==
    [ rect |-> << r.min_x, r.min_y, r.max_x - r.min_x, r.max_y - r.min_y >>,
      bbox_size |-> r.bbox_size,
      size |-> r.size,
      labels |-> r.labels ]

\* lines 373-385, reached when S == {}
Emit ==
    /\ pc = "loop"
    /\ S = << >>
    /\ LET ks == emitted_keys(R, first_region_to_pop)
       IN  regions' = [n \in 1 .. Len(ks) |-> proposal(R[ks[n]])]
    /\ pc' = "done"
    /\ UNCHANGED << params, R, S, first_region_to_pop, merges >>

Next == Reject \/ Setup \/ Pop \/ Merge \/ Emit

Spec == Init /\ [][Next]_vars

\* the run is one sequential call: it proceeds whenever a step is possible
FairSpec == Spec /\ WF_vars(Next)

(***************************************************************************)
(* Vocabulary of the properties.                                           *)
(***************************************************************************)
\* ids that served as an endpoint of a performed merge
Consumed == UNION { { merges[n].i, merges[n].j } : n \in 1 .. Len(merges) }

\* ids created by a merge
MergedIds == { merges[n].t : n \in 1 .. Len(merges) }

\* ids of the initial (border-expanded) regions
LeafIds == DOMAIN R \ MergedIds

\* ids that are an endpoint of some similarity of S
Endpoints == UNION { { S[n].k[1], S[n].k[2] } : n \in 1 .. Len(S) }

Popped == SeqRange(first_region_to_pop)

InLoop == pc \in { "loop", "done" }

\* some corner of b's bbox lies strictly inside a's bbox
CornerInside(a, b) ==
    \E cx \in { b.min_x, b.max_x }, cy \in { b.min_y, b.max_y } :
        a.min_x < cx /\ cx < a.max_x /\ a.min_y < cy /\ cy < a.max_y

\* region_pop flagged a region that had a neighbour in the initial graph
PrunedNeighbour ==
    \E k \in Popped, a \in LeafIds :
        \/ a < k /\ CornerInside(R[a], R[k])
        \/ k < a /\ CornerInside(R[k], R[a])

\* the proposal list holds exactly one record for each id of ks
EmitsExactly(ks) ==
    /\ Len(regions) = Cardinality(ks)
    /\ \A k \in ks :
          \E n \in 1 .. Len(regions) :
              /\ regions[n].labels = R[k].labels
              /\ regions[n].size = R[k].size
              /\ regions[n].rect = << R[k].min_x, R[k].min_y,
                                      R[k].max_x - R[k].min_x,
                                      R[k].max_y - R[k].min_y >>
    /\ \A n \in 1 .. Len(regions) :
          \E k \in ks : regions[n].labels = R[k].labels

(***************************************************************************)
(* C1 (as stated): when selective_search finishes, the proposal list holds *)
(* exactly the regions never consumed as a merge input and not flagged by  *)
(* region_pop.  Refuted: consumed regions are emitted too.                 *)
(***************************************************************************)
C1_OnlySurvivorsEmitted ==
    pc = "done" => EmitsExactly((DOMAIN R \ Consumed) \ Popped)

(***************************************************************************)
(* C1 (amended): when selective_search finishes, the proposal list holds   *)
(* exactly one record for every region of the table, initial or merged,    *)
(* consumed by a later merge or not, that region_pop did not flag.         *)
(***************************************************************************)
C1_AllUnflaggedEmitted ==
    pc = "done" => EmitsExactly(DOMAIN R \ Popped)

C1_Witness ==
    /\ pc = "done"
    /\ merges # << >>
    /\ Popped # {}
    /\ Consumed # {}

(***************************************************************************)
(* C2 (as stated): in every state of the merge loop, for every setting of  *)
(* region_pop and max_region_size, no similarity has an endpoint whose     *)
(* bbox_size exceeds max_region_size.  Refuted with region_pop off.        *)
(***************************************************************************)
NoOverCapEndpoint ==
    \A e \in Endpoints : ~(R[e].bbox_size > max_region_size)

C3_NeighboursSymmetric ==
    pc = "pop" =>
        \A a \in DOMAIN R, b \in DOMAIN R :
            a < b =>
                ((<< a, b >> \in Keys(S) \/ << b, a >> \in Keys(S))
                    <=> (CornerInside(R[a], R[b]) \/ CornerInside(R[b], R[a])))

(***************************************************************************)
(* C4: every region of the table, initial or merged, has bbox_size equal   *)
(* to (max_x - min_x) * (max_y - min_y) of its own current bbox.           *)
(***************************************************************************)
C4_BboxSizeOfOwnBbox ==
    \A k \in DOMAIN R :
        R[k].bbox_size = (R[k].max_x - R[k].min_x) * (R[k].max_y - R[k].min_y)

(***************************************************************************)
(* C5: with region_pop enabled, an initial region whose bbox_size exceeds  *)
(* max_region_size has no similarity when the merge loop starts, never     *)
(* acquires one, is never consumed by a merge and is absent from the       *)
(* proposal list; the pruning step leaves the region table as it was.      *)
(***************************************************************************)
OverCapLeafExcluded ==
    \A k \in LeafIds :
        R[k].bbox_size > max_region_size =>
            /\ k \notin Endpoints
            /\ k \notin Consumed
            /\ \A n \in 1 .. Len(regions) : regions[n].labels # R[k].labels

TwoEqualSquares ==
    /\ \E k \in 1 .. MaxSquare :
          im_shape = << k, 2 * k, 3 >> /\ im_mask = SquarePair(k)
    /\ LeafIds = 0 .. 1
    /\ R[0].size = R[1].size
    /\ R[0].hist_c = R[1].hist_c
    /\ R[0].hist_t = R[1].hist_t

C6_TwoSquaresMergeOnce ==
    (pc = "done" /\ TwoEqualSquares) =>
        /\ Len(merges) = 1
        /\ LET rt == R[merges[1].t]
           IN  /\ rt.size = R[0].size + R[1].size
               /\ rt.min_x <= R[0].og_min_x /\ rt.min_y <= R[0].og_min_y
               /\ rt.max_x >= R[1].og_max_x /\ rt.max_y >= R[1].og_max_y

(***************************************************************************)
(* C7: the merge loop terminates: every iteration leaves the similarity    *)
(* set with strictly fewer items than it had when the iteration started,   *)
(* so the iterations performed and the items left never exceed the number  *)
(* of initial neighbour pairs, and the run ends with the set empty.        *)
(***************************************************************************)
InitialPairs ==
    { pr \in LeafIds \X LeafIds : pr[1] < pr[2] /\ CornerInside(R[pr[1]], R[pr[2]]) }

C7_LoopTerminates ==
    /\ [][(pc = "loop" /\ S # << >>) => Len(S') < Len(S)]_vars
    /\ [](InLoop => Len(merges) + Len(S) <= Cardinality(InitialPairs))
    /\ [](pc = "done" => S = << >>)

C7_Witness ==
    /\ pc = "loop"
    /\ merges # << >>
    /\ merges[Len(merges)].ns # {}
    /\ S # << >>

(***************************************************************************)
(* C8: every merged region's labels are the union of its two parents'      *)
(* labels, the label sets of two regions that are both not consumed by a   *)
(* merge are disjoint, and no label appears twice in one region's list.    *)
(***************************************************************************)
LabelSet(k) == SeqRange(R[k].labels)

C8_LabelsPartition ==
    /\ \A n \in 1 .. Len(merges) :
          LabelSet(merges[n].t) = LabelSet(merges[n].i) \cup LabelSet(merges[n].j)
    /\ \A a \in DOMAIN R \ Consumed, b \in DOMAIN R \ Consumed :
          a # b => LabelSet(a) \cap LabelSet(b) = {}
    /\ \A k \in DOMAIN R : Cardinality(LabelSet(k)) = Len(R[k].labels)

C8_Witness ==
    /\ Len(merges) >= 2
    /\ merges[1].t \in { merges[2].i, merges[2].j }
    /\ Len(R[merges[2].t].labels) = 3

(***************************************************************************)
(* C9: size is conserved: every merged region's size is the sum of its two *)
(* parents' sizes, and the sizes of the regions not consumed by a merge    *)
(* add up to the sizes of the initial regions.                             *)
(***************************************************************************)
SizeOver(ks) == SumFun([k \in DOMAIN R |-> R[k].size], ks)

C9_SizeConserved ==
    /\ \A n \in 1 .. Len(merges) :
          R[merges[n].t].size = R[merges[n].i].size + R[merges[n].j].size
    /\ SizeOver(DOMAIN R \ Consumed) = SizeOver(LeafIds)

C9_Witness ==
    /\ pc = "done"
    /\ Len(merges) = 2
    /\ R[merges[2].t].size = imsize
    /\ R[merges[1].i].size # R[merges[1].j].size

(***************************************************************************)
(* C10: a merged region whose bbox_size exceeds max_region_size is frozen: *)
(* after the iteration that creates it no similarity has it as an          *)
(* endpoint, it is never consumed by a later merge, and the proposal list  *)
(* holds it with the bbox, size and labels computed at its merge.          *)
(***************************************************************************)
FrozenAt(n) == R[merges[n].t].bbox_size > max_region_size

C10_FrozenMergedRegion ==
    \A n \in 1 .. Len(merges) :
        FrozenAt(n) =>
            LET a == R[merges[n].i]
                b == R[merges[n].j]
                x0 == Min2(a.min_x, b.min_x)
                y0 == Min2(a.min_y, b.min_y)
                x1 == Max2(a.max_x, b.max_x)
                y1 == Max2(a.max_y, b.max_y)
            IN  /\ merges[n].t \notin Endpoints
                /\ merges[n].t \notin Consumed
                /\ pc = "done" =>
                      \E q \in 1 .. Len(regions) :
                          /\ regions[q].labels = a.labels \o b.labels
                          /\ regions[q].size = a.size + b.size
                          /\ regions[q].rect = << x0, y0, x1 - x0, y1 - y0 >>
                          /\ regions[q].bbox_size = (x1 - x0) * (y1 - y0)

C10_Witness ==
    /\ pc = "done"
    /\ \E n \in 1 .. Len(merges) : FrozenAt(n) /\ merges[n].ns # {}

(***************************************************************************)
(* C11.  Bounding boxes are well formed.                                   *)
(***************************************************************************)
\* the box of a encloses the box of b
Encloses(a, b) ==
    /\ a.min_x <= b.min_x /\ b.max_x <= a.max_x
    /\ a.min_y <= b.min_y /\ b.max_y <= a.max_y

\* the unexpanded box of leaf r, as _extract_regions measured it
OgBox(r) ==
    [min_x |-> r.og_min_x, min_y |-> r.og_min_y,
     max_x |-> r.og_max_x, max_y |-> r.og_max_y]

\* the whole image as a box: x in 0 .. width, y in 0 .. height
ImageBox ==
    [min_x |-> 0, min_y |-> 0, max_x |-> im_shape[2], max_y |-> im_shape[1]]

HistTotal(h) == SumFun(h, DOMAIN h)

\* C12: for every leaf region the entries of the joined three-channel colour
\* histogram sum to 1, and so do the entries of the joined three-channel
\* texture histogram: the raw bin counts add up to the number of sampled
\* pixels, len(img), by which they are divided.
C12_HistogramsSumToOne ==
    \A k \in LeafIds :
        /\ HistTotal(R[k].hist_c) = R[k].size
        /\ HistTotal(R[k].hist_t) = R[k].size

(***************************************************************************)
(* C13.  The channel check.                                                *)
(***************************************************************************)
\* C13: an image whose channel count is not 3 is rejected before anything
\* is processed: the run never gets past the check, so no region is
\* extracted, no similarity computed, no region flagged, no merge performed
\* and no proposal returned.
C13_WrongChannelsRejected ==
    im_shape[3] # 3 =>
        /\ pc \in {"start", "failed"}
        /\ R = << >> /\ S = << >>
        /\ first_region_to_pop = << >>
        /\ merges = << >> /\ regions = << >>

\* a four-channel image has been rejected
C13_Witness == pc = "failed" /\ im_shape[3] = 4 /\ R = << >> /\ regions = << >>

(***************************************************************************)
(* C14.  Frame of one merge iteration on the similarity set.               *)
(***************************************************************************)
\* the iteration merged last, once the loop has run
LastMerge == merges[Len(merges)]

\* key k holds i or j
Touches(k, i, j) == k[1] \in {i, j} \/ k[2] \in {i, j}

\* the regions other than i and j that a key of s joins to i or j
OtherEnds(s, i, j) ==
    { n \in UNION { {k[1], k[2]} : k \in { e \in Keys(s) : Touches(e, i, j) } } :
        n \notin {i, j} }

\* C14: an iteration that merges i and j into a region t that is not frozen
\* leaves in S exactly: every former item whose key holds neither i nor j,
\* score unchanged, and one item keyed (t, n) for each region n other than i
\* and j that a former key joined to i or j; no key holding i or j remains,
\* no other key is added, and no key occurs twice.
C14_MergeFrame ==
    [][ (pc = "loop" /\ Len(merges') = Len(merges) + 1) =>
          LET i == merges'[Len(merges')].i
              j == merges'[Len(merges')].j
              t == merges'[Len(merges')].t
          IN  R'[t].bbox_size <= max_region_size =>
                /\ Keys(S') = { k \in Keys(S) : ~Touches(k, i, j) }
                               \cup { << t, n >> : n \in OtherEnds(S, i, j) }
                /\ Cardinality(Keys(S')) = Len(S')
                /\ \A e \in SeqRange(S) :
                      ~Touches(e.k, i, j) => e \in SeqRange(S')
    ]_vars

\* after an iteration that did not freeze its result, S holds a similarity
\* of the new region and a similarity the iteration kept
C14_Witness ==
    /\ pc = "loop" /\ merges # << >>
    /\ R[LastMerge.t].bbox_size <= max_region_size
    /\ \E k \in Keys(S) : k[1] = LastMerge.t
    /\ \E k \in Keys(S) : LastMerge.t \notin {k[1], k[2]}

(***************************************************************************)
(* C15.  The merge is greedy.                                              *)
(***************************************************************************)
\* C15: in every iteration the pair (i, j) chosen for merging is a key of
\* the current similarity set, and its score is greater than or equal to
\* the score of every item of the set.
C15_GreedyChoice ==
    [][ (pc = "loop" /\ Len(merges') = Len(merges) + 1) =>
          \E n \in 1 .. Len(S) :
              /\ S[n].k = << merges'[Len(merges')].i, merges'[Len(merges')].j >>
              /\ \A m \in 1 .. Len(S) : RatLeq(S[m].v, S[n].v)
    ]_vars

\* the similarities the loop started from that joined p and q, none flagged
UnflaggedPairs == { pr \in InitialPairs : pr[1] \notin Popped /\ pr[2] \notin Popped }

PairSim(pr) == calc_sim(R[pr[1]], R[pr[2]], imsize)

\* the first iteration chose among several similarities: one scored strictly
\* lower than the chosen pair, and another scored the same
C15_Witness ==
    /\ pc = "loop" /\ merges # << >>
    /\ LET first == << merges[1].i, merges[1].j >>
       IN  /\ first \in UnflaggedPairs
           /\ \E pr \in UnflaggedPairs : ~RatLeq(PairSim(first), PairSim(pr))
           /\ \E pr \in UnflaggedPairs \ {first} :
                 RatLeq(PairSim(first), PairSim(pr))

(***************************************************************************)
(* C16.  A region is consumed at most once.                                *)
(***************************************************************************)
\* C16: once a region has been an end of the pair chosen by an iteration,
\* it is never again an end of a similarity of S, it is never chosen again
\* (no id is an end of the chosen pair of two iterations, nor both ends of
\* one), and its record stays in the region table, unchanged.
C16_ConsumedOnce ==
    /\ [](Consumed \cap Endpoints = {})
    /\ [](\A n \in 1 .. Len(merges) :
            /\ merges[n].i # merges[n].j
            /\ \A m \in 1 .. n - 1 :
                  {merges[m].i, merges[m].j} \cap {merges[n].i, merges[n].j} = {})
    /\ [][\A r \in Consumed : r \in DOMAIN R' /\ R'[r] = R[r]]_vars

\* a second iteration has consumed the region the first one created, after
\* the first one consumed two regions that had other neighbours, and
\* similarities remain
C16_Witness ==
    /\ Len(merges) >= 2
    /\ merges[1].ns # {}
    /\ merges[1].t \in {merges[2].i, merges[2].j}
    /\ S # << >>
    /\ Consumed \subseteq DOMAIN R

(***************************************************************************)
(* C17.  One similarity per unordered pair.                                *)
(***************************************************************************)
\* C17: the similarity set holds at most one item for any unordered pair of
\* regions: no key occurs twice, never both (a, b) and (b, a), and never a
\* pair (a, a).
C17_OneEdgePerPair ==
    /\ Cardinality(Keys(S)) = Len(S)
    /\ \A k \in Keys(S) : k[1] # k[2] /\ << k[2], k[1] >> \notin Keys(S)

\* the first iteration merged two regions that both had a similarity with
\* a third region n, and S now holds the similarity (t, n)
C17_Witness ==
    /\ pc = "loop" /\ Len(merges) = 1
    /\ \E n \in merges[1].ns :
          /\ \E pr \in UnflaggedPairs : {pr[1], pr[2]} = {merges[1].i, n}
          /\ \E pr \in UnflaggedPairs : {pr[1], pr[2]} = {merges[1].j, n}
          /\ << merges[1].t, n >> \in Keys(S)

(***************************************************************************)
(* C18.  Bounded growth of the region table.                               *)
(***************************************************************************)
\* number of initial regions
NumLeaves == Cardinality(LeafIds)

\* C18: a run that starts from N initial regions performs at most N - 1
\* merge iterations; each of them allocates an id that is strictly greater
\* than every id in the table and adds just that id, so the table never
\* holds more than 2N - 1 regions and no id is used twice.
C18_BoundedGrowth ==
    /\ [](R # << >> =>
            /\ Len(merges) <= NumLeaves - 1
            /\ Cardinality(DOMAIN R) <= 2 * NumLeaves - 1
            /\ Cardinality(MergedIds) = Len(merges))
    /\ [][ Len(merges') = Len(merges) + 1 =>
            /\ \A k \in DOMAIN R : merges'[Len(merges')].t > k
            /\ DOMAIN R' = DOMAIN R \cup { merges'[Len(merges')].t } ]_vars

\* a finished run of N = MaxLabels initial regions that took all N - 1
\* iterations and filled the table with 2N - 1 regions
C18_Witness ==
    /\ pc = "done"
    /\ NumLeaves = MaxLabels
    /\ Len(merges) = NumLeaves - 1
    /\ Cardinality(DOMAIN R) = 2 * NumLeaves - 1
====
